---- MODULE Spec2Model ----
(***************************************************************************)
(* A model of flight-mcp-server: the Validation Layer of                   *)
(* src/src/errorHandler.js, the Query Dispatcher of src/src/index.js and   *)
(* the Provider Client of src/src/amadeusClient.js (src/unnamed/part_001). *)
(*                                                                         *)
(* JavaScript strings are sequences of one-character strings, so that the  *)
(* regular expressions, toUpperCase and number formatting are computed.    *)
(* Time is counted in hours since 1970-01-01T00:00Z.                       *)
(***************************************************************************)
EXTENDS Integers, Sequences, FiniteSets, TLC

VARIABLES
    useRealAPI,     \* this.useRealAPI: "undefined", "true" or "false"
    probe,          \* testAmadeusConnection: "none", "pending" or "done"
    flagWrites,     \* how many assignments to this.useRealAPI have run
    writers,        \* which code has assigned this.useRealAPI
    credentials,    \* AMADEUS_API_KEY and AMADEUS_API_SECRET are both set
    now,            \* the clock, hours since the epoch (UTC)
    tz,             \* the process's timezone offset from UTC, in hours
    call,           \* the tool call being handled, or the last one handled
    servedModes,    \* the modes in which calls of this process were served
    fn              \* the last application of a validator (SpecValidators)

vars == <<useRealAPI, probe, flagWrites, writers, credentials, now, tz, call,
          servedModes, fn>>

-----------------------------------------------------------------------------
(* Characters and strings *)

UpperCase == <<"A","B","C","D","E","F","G","H","I","J","K","L","M",
               "N","O","P","Q","R","S","T","U","V","W","X","Y","Z">>
LowerCase == <<"a","b","c","d","e","f","g","h","i","j","k","l","m",
               "n","o","p","q","r","s","t","u","v","w","x","y","z">>
DigitChars == <<"0","1","2","3","4","5","6","7","8","9">>

Range(f) == {f[i] : i \in DOMAIN f}

UpperLetters == Range(UpperCase)
Letters == Range(UpperCase) \cup Range(LowerCase)
Digits == Range(DigitChars)

IsUpper(c) == c \in UpperLetters
IsLetter(c) == c \in Letters
IsDigit(c) == c \in Digits

\* String.prototype.toUpperCase, character by character
UpperOf == [c \in Range(LowerCase) |->
                UpperCase[CHOOSE i \in DOMAIN LowerCase : LowerCase[i] = c]]
ToUpperChar(c) == IF c \in DOMAIN UpperOf THEN UpperOf[c] ELSE c
toUpperCase(s) == [i \in DOMAIN s |-> ToUpperChar(s[i])]

ValueOf == [c \in Digits |-> (CHOOSE i \in DOMAIN DigitChars : DigitChars[i] = c) - 1]
DigitVal(c) == ValueOf[c]

\* the number spelled by a string of decimal digits
RECURSIVE ParseDigits(_)
ParseDigits(s) ==
    IF Len(s) = 0 THEN 0
    ELSE 10 * ParseDigits(SubSeq(s, 1, Len(s) - 1)) + DigitVal(s[Len(s)])

\* Number.prototype.toString for a non-negative integer
RECURSIVE NumberToString(_)
NumberToString(n) ==
    IF n < 10 THEN <<DigitChars[n + 1]>>
    ELSE NumberToString(n \div 10) \o <<DigitChars[(n % 10) + 1]>>

\* n written with at least two digits: the months and days of a date string
Pad2(n) == IF n < 10 THEN <<"0">> \o NumberToString(n) ELSE NumberToString(n)

-----------------------------------------------------------------------------
(* JavaScript values that a JSON argument can hold *)

Undefined == [t |-> "undefined"]
Str(s) == [t |-> "string", s |-> s]
Num(n) == [t |-> "number", n |-> n, int |-> TRUE]
\* a number with a fractional part above n, such as 1.5
Frac(n) == [t |-> "number", n |-> n, int |-> FALSE]
\* an object; JSON such as {"toString": 1} has no usable string conversion
Obj(printable) == [t |-> "object", printable |-> printable]

IsString(v) == v.t = "string"

\* ToBoolean
Truthy(v) ==
    CASE v.t = "undefined" -> FALSE
      [] v.t = "string" -> Len(v.s) > 0
      [] v.t = "number" -> ~(v.int /\ v.n = 0)
      [] OTHER -> TRUE

\* whether `${v}` yields a string; it throws a TypeError when the object's
\* toString and valueOf give no primitive
CanConvertToString(v) == v.t = "object" => v.printable

Ok(v) == [ok |-> TRUE, val |-> v]
Throw(e) == [ok |-> FALSE, err |-> e]

ValidationError(message, field, value) ==
    [name |-> "ValidationError", message |-> message, field |-> field,
     value |-> value]

\* the details object of a FlightAPIError: its keys, and the code the error is
\* about (which its message spells out too) when it is about one
Details(keys, subject) == [keys |-> keys, subject |-> subject]
\* details = {}, the constructor's default
NoDetails == Details({}, <<>>)

FlightAPIError(message, code, details) ==
    [name |-> "FlightAPIError", message |-> message, code |-> code,
     details |-> details]

TypeError(message) == [name |-> "TypeError", message |-> message]

-----------------------------------------------------------------------------
(* The calendar and the Date object *)

IsLeapYear(y) == (y % 4 = 0 /\ y % 100 # 0) \/ y % 400 = 0

DaysInMonth(y, m) ==
    CASE m \in {4, 6, 9, 11} -> 30
      [] m = 2 -> IF IsLeapYear(y) THEN 29 ELSE 28
      [] OTHER -> 31

\* a real calendar date
IsCalendarDate(y, m, d) == m \in 1..12 /\ d \in 1..DaysInMonth(y, m)

\* MakeDay: days from the epoch to year y, month m (1..12), day d; a day
\* beyond the month's length runs over into the following month
MakeDay(y, m, d) ==
    LET yy == IF m <= 2 THEN y - 1 ELSE y
        era == yy \div 400
        yoe == yy - era * 400
        mp == (m + 9) % 12
        doy == (153 * mp + 2) \div 5 + d - 1
        doe == yoe * 365 + yoe \div 4 - yoe \div 100 + doy
    IN era * 146097 + doe - 719468

\* /^\d{4}-\d{2}-\d{2}$/
dateRegex(s) ==
    /\ Len(s) = 10
    /\ \A i \in {1, 2, 3, 4, 6, 7, 9, 10} : IsDigit(s[i])
    /\ s[5] = "-" /\ s[8] = "-"

DateYear(s) == ParseDigits(SubSeq(s, 1, 4))
DateMonth(s) == ParseDigits(SubSeq(s, 6, 7))
DateDay(s) == ParseDigits(SubSeq(s, 9, 10))

\* new Date(dateString).getTime() of a string matching dateRegex, in hours,
\* or "NaN". Node's parser takes a date-only string as UTC midnight, accepts
\* any month 01-12 with any day 01-31 and lets MakeDay run over.
NewDate(s) ==
    IF DateMonth(s) \in 1..12 /\ DateDay(s) \in 1..31
    THEN [nan |-> FALSE,
          time |-> MakeDay(DateYear(s), DateMonth(s), DateDay(s)) * 24]
    ELSE [nan |-> TRUE, time |-> 0]

\* Date.prototype.setHours(0, 0, 0, 0): midnight of the local day holding t
setHoursZero(t, offset) == ((t + offset) \div 24) * 24 - offset

\* "YYYY-MM-DD" of a year, month and day
DateString(y, m, d) == NumberToString(y) \o <<"-">> \o Pad2(m) \o <<"-">> \o Pad2(d)

-----------------------------------------------------------------------------
(* errorHandler.js: the Validation Layer *)

errorCodes ==
    [INVALID_AIRPORT_CODE |-> "INVALID_AIRPORT_CODE",
     INVALID_DATE_FORMAT |-> "INVALID_DATE_FORMAT",
     INVALID_PASSENGER_COUNT |-> "INVALID_PASSENGER_COUNT",
     FLIGHT_NOT_FOUND |-> "FLIGHT_NOT_FOUND",
     API_RATE_LIMIT |-> "API_RATE_LIMIT",
     API_UNAVAILABLE |-> "API_UNAVAILABLE",
     NETWORK_ERROR |-> "NETWORK_ERROR"]

\* /^[A-Za-z]{3}$/
airportRegex(s) == Len(s) = 3 /\ \A i \in 1..Len(s) : IsLetter(s[i])

validateAirportCode_NoUpper(code) ==
    IF ~Truthy(code) \/ ~IsString(code)
    THEN Throw(ValidationError("Airport code is required", "airport_code", code))
    ELSE IF Len(code.s) # 3
    THEN Throw(ValidationError("Airport code must be 3 characters long",
                               "airport_code", code))
    ELSE IF ~airportRegex(code.s)
    THEN Throw(ValidationError("Airport code must contain only letters",
                               "airport_code", code))
    ELSE Ok(code)

validateAirportCode(code) ==
    IF ~Truthy(code) \/ ~IsString(code)
    THEN Throw(ValidationError("Airport code is required", "airport_code", code))
    ELSE IF Len(code.s) # 3
    THEN Throw(ValidationError("Airport code must be 3 characters long",
                               "airport_code", code))
    ELSE IF ~airportRegex(code.s)
    THEN Throw(ValidationError("Airport code must contain only letters",
                               "airport_code", code))
    ELSE Ok(Str(toUpperCase(code.s)))

validateDate(dateString, fieldName) ==
    IF ~Truthy(dateString) \/ ~IsString(dateString)
    THEN Throw(ValidationError("is required", fieldName, dateString))
    ELSE IF ~dateRegex(dateString.s)
    THEN Throw(ValidationError("must be in YYYY-MM-DD format", fieldName,
                               dateString))
    ELSE IF NewDate(dateString.s).nan
    THEN Throw(ValidationError("Invalid", fieldName, dateString))
    ELSE IF setHoursZero(NewDate(dateString.s).time, tz) < setHoursZero(now, tz)
    THEN Throw(ValidationError("cannot be in the past", fieldName, dateString))
    ELSE Ok(dateString)

\* /^[A-Za-z]{2,3}\d{1,4}$/
flightRegex(s) ==
    \E k \in 2..3 :
        /\ Len(s) - k \in 1..4
        /\ \A i \in 1..k : IsLetter(s[i])
        /\ \A i \in (k + 1)..Len(s) : IsDigit(s[i])

validateFlightNumber(flightNumber) ==
    IF ~Truthy(flightNumber) \/ ~IsString(flightNumber)
    THEN Throw(ValidationError("Flight number is required", "flight_number",
                               flightNumber))
    ELSE IF ~flightRegex(flightNumber.s)
    THEN Throw(ValidationError("Flight number must be in format: AA123, DL1234, etc.",
                               "flight_number", flightNumber))
    ELSE Ok(Str(toUpperCase(flightNumber.s)))

validatePassengerCount(count) ==
    IF /\ count # Undefined
       /\ \/ count.t # "number"
          \/ ~count.int
          \/ count.n < 1
          \/ count.n > 9
    THEN Throw(ValidationError("Number of adults must be between 1 and 9",
                               "adults", count))
    ELSE Ok(IF Truthy(count) THEN count ELSE Num(1))

validClasses == {"economy", "premium_economy", "business", "first"}

validateTravelClass(travelClass) ==
    IF Truthy(travelClass) /\ ~(IsString(travelClass) /\ travelClass.s \in validClasses)
    THEN Throw(ValidationError("Travel class must be one of", "travel_class",
                               travelClass))
    ELSE Ok(IF Truthy(travelClass) THEN travelClass ELSE Str("economy"))

\* whether the string conversion of the value holds a newline character
HasNewline(v) == IsString(v) /\ \E k \in 1..Len(v.s) : v.s[k] = "\n"

\* the text payload formatError builds, or the TypeError its template
\* literal throws on a value with no string conversion. lineBreaks tells which
\* line breaks the text holds: "escaped" for the two characters \ and n the
\* source's "\\n" writes, "raw" for a newline character (JSON.stringify's
\* indentation, or one of the rejected value).
formatError(error) ==
    IF error.name = "ValidationError"
    THEN IF CanConvertToString(error.value)
         THEN [kind |-> "text", shape |-> "validation", message |-> error.message,
               field |-> error.field, value |-> error.value,
               code |-> "", source |-> "none", label |-> "none", data |-> <<>>,
               details |-> NoDetails,
               \* the travel classes tried are whole words without a newline
               lineBreaks |-> IF error.field # "travel_class" /\ HasNewline(error.value)
                              THEN {"escaped", "raw"}
                              ELSE {"escaped"}]
         ELSE [kind |-> "exception", shape |-> "TypeError",
               message |-> "Cannot convert object to primitive value",
               field |-> "", value |-> Undefined,
               code |-> "", source |-> "none", label |-> "none", data |-> <<>>,
               details |-> NoDetails, lineBreaks |-> {}]
    ELSE IF error.name = "FlightAPIError"
    THEN [kind |-> "text", shape |-> "domain", message |-> error.message,
          field |-> "", value |-> Undefined,
          code |-> error.code, source |-> "none", label |-> "none", data |-> <<>>,
          \* Object.keys(error.details).length > 0: JSON.stringify(details, null, 2)
          details |-> error.details,
          lineBreaks |-> IF error.details.keys # {} THEN {"escaped", "raw"}
                         ELSE {"escaped"}]
    ELSE [kind |-> "text", shape |-> "unexpected", message |-> error.message,
          field |-> "", value |-> Undefined,
          code |-> "", source |-> "none", label |-> "none", data |-> <<>>,
          details |-> NoDetails, lineBreaks |-> {"escaped"}]

-----------------------------------------------------------------------------
(* Math.random *)

\* Math.random() returns n / RandDen for a numerator n in 0..RandDen-1
RandDen == 8
RandStep == 3
Seeds == 0..(RandDen - 1)

\* the numerator of the k-th draw (k = 0, 1, ...) of the sequence `seed` names;
\* a call draws its random numbers from one of these sequences
RandomDraw(seed, k) == (seed + k * RandStep) % RandDen

\* Math.floor(Math.random() * scale + shift) for the draw with numerator n
FloorRandom(n, scale, shift) == (n * scale) \div RandDen + shift

-----------------------------------------------------------------------------
(* index.js: the Synthetic Data Generator *)

airlines ==
    <<[code |-> <<"A","A">>, name |-> "American Airlines"],
      [code |-> <<"D","L">>, name |-> "Delta Air Lines"],
      [code |-> <<"U","A">>, name |-> "United Airlines"],
      [code |-> <<"W","N">>, name |-> "Southwest Airlines"],
      [code |-> <<"B","6">>, name |-> "JetBlue Airways"]>>

\* the number of flights generateMockFlights makes
MockFlightCount == 5
\* the random numbers one iteration of its loop draws
DrawsPerFlight == 10

\* generateRandomTime with the draws numbered k and k + 1: "HH:MM"
generateRandomTime(seed, k) ==
    Pad2(FloorRandom(RandomDraw(seed, k), 24, 0)) \o <<":">>
        \o Pad2(FloorRandom(RandomDraw(seed, k + 1), 60, 0))

\* Array.prototype.sort((a, b) => a.price.amount - b.price.amount): a stable
\* sort, here by insertion
RECURSIVE InsertByPrice(_, _)
InsertByPrice(sorted, f) ==
    IF sorted = <<>> THEN <<f>>
    ELSE IF sorted[Len(sorted)].price.amount <= f.price.amount
    THEN Append(sorted, f)
    ELSE Append(InsertByPrice(SubSeq(sorted, 1, Len(sorted) - 1), f),
                sorted[Len(sorted)])

RECURSIVE SortByPrice(_)
SortByPrice(fs) ==
    IF fs = <<>> THEN <<>>
    ELSE InsertByPrice(SortByPrice(SubSeq(fs, 1, Len(fs) - 1)), fs[Len(fs)])

\* Math.random() > 0.6 ? 0 : 1, for the draw with numerator n
StopsForDraw(n) == IF n * 10 > 6 * RandDen THEN 0 ELSE 1

\* the flight the i-th iteration (i = 0..4) of the loop pushes
MockFlight(i, seed, origin, destination, departureDate, adults, travelClass) ==
    LET k == i * DrawsPerFlight
        airline == airlines[FloorRandom(RandomDraw(seed, k), Len(airlines), 0) + 1]
        flightNumber ==
            airline.code \o NumberToString(FloorRandom(RandomDraw(seed, k + 1), 9000, 1000))
        basePrice == FloorRandom(RandomDraw(seed, k + 2), 800, 200)
        duration == FloorRandom(RandomDraw(seed, k + 3), 8, 2)
    IN [airline |-> airline.name,
        flight_number |-> flightNumber,
        origin |-> origin,
        destination |-> destination,
        departure_date |-> departureDate,
        departure_time |-> generateRandomTime(seed, k + 4),
        arrival_time |-> generateRandomTime(seed, k + 6),
        duration |-> [h |-> duration,
                      m |-> FloorRandom(RandomDraw(seed, k + 8), 60, 0)],
        price |-> [amount |-> basePrice * adults, currency |-> "USD",
                   per_person |-> basePrice],
        stops |-> StopsForDraw(RandomDraw(seed, k + 9)),
        travel_class |-> travelClass,
        aircraft |-> "Boeing 737-800",
        booking_class |-> "V",
        segments |-> 0]

generateMockFlights_Unsorted(seed, origin, destination, departureDate, adults, travelClass) ==
    [i \in 1..MockFlightCount |->
        MockFlight(i - 1, seed, origin, destination, departureDate, adults, travelClass)]

generateMockFlights(seed, origin, destination, departureDate, adults, travelClass) ==
    SortByPrice([i \in 1..MockFlightCount |->
        MockFlight(i - 1, seed, origin, destination, departureDate, adults, travelClass)])

mockAirports ==
    [code \in {<<"L","A","X">>, <<"J","F","K">>, <<"L","H","R">>, <<"N","R","T">>} |->
        [code |-> code,
         name |-> CASE code = <<"L","A","X">> -> "Los Angeles International Airport"
                    [] code = <<"J","F","K">> -> "John F. Kennedy International Airport"
                    [] code = <<"L","H","R">> -> "London Heathrow Airport"
                    [] OTHER -> "Narita International Airport"]]

mockAirlines ==
    [code \in {<<"A","A">>, <<"D","L">>, <<"U","A">>, <<"L","H">>} |->
        [name |-> CASE code = <<"A","A">> -> "American Airlines"
                    [] code = <<"D","L">> -> "Delta Air Lines"
                    [] code = <<"U","A">> -> "United Airlines"
                    [] OTHER -> "Lufthansa"]]

statuses == <<"On Time", "Delayed", "Boarding", "Departed", "Arrived", "Cancelled">>
gates == <<"A12", "B7", "C14", "D9", "E23">>

-----------------------------------------------------------------------------
(* amadeusClient.js: the Provider Client *)

\* What the provider can answer a request with: a response carrying data, or
\* an error with the errors of its body, its system error code and its HTTP
\* status.
Response(data) == [kind |-> "response", data |-> data, errors |-> <<>>,
                   code |-> "", status |-> 200]
Failure(errors, code, status) == [kind |-> "error", data |-> <<>>, errors |-> errors,
                                  code |-> code, status |-> status]

\* a local date and time as the provider writes it: "2026-03-02T08:00:00"
At(date, hour, minute) == [date |-> date, hour |-> hour, minute |-> minute]

\* one end of a segment: the airport and the local time there
Stop(iataCode, at) == [iataCode |-> iataCode, at |-> at]

Segment(carrierCode, number, from, to) ==
    [carrierCode |-> carrierCode, number |-> number,
     departure |-> from, arrival |-> to]

\* formatTime: new Date(dateTimeString) reads a date-time without offset as
\* local time, and toISOString().substr(11, 5) prints its UTC hour and minute
formatTime(at) == Pad2((at.hour - tz) % 24) \o <<":">> \o Pad2(at.minute)

Offer(id, total, base, validating, segments) ==
    [id |-> id, price |-> [total |-> total, base |-> base, currency |-> "USD"],
     validatingAirlineCodes |-> <<validating>>,
     itineraries |-> <<[segments |-> segments]>>]

\* formatFlightOffers taking the destination and the arrival from the first
\* segment
formatFlightOffers_FirstSegmentOnly(flightOffers) ==
    [i \in DOMAIN flightOffers |->
        LET offer == flightOffers[i]
            itinerary == offer.itineraries[1]
            segment == itinerary.segments[1]
        IN [airline |-> offer.validatingAirlineCodes[1],
            flight_number |-> segment.carrierCode \o segment.number,
            origin |-> segment.departure.iataCode,
            destination |-> segment.arrival.iataCode,
            departure_date |-> segment.departure.at.date,
            departure_time |-> formatTime(segment.departure.at),
            arrival_time |-> formatTime(segment.arrival.at),
            duration |-> [h |-> 0, m |-> 0],
            price |-> [amount |-> offer.price.total, currency |-> offer.price.currency,
                       per_person |-> offer.price.base],
            stops |-> Len(itinerary.segments) - 1,
            travel_class |-> "economy",
            aircraft |-> "Unknown",
            booking_class |-> "",
            segments |-> Len(itinerary.segments)]]

\* formatFlightOffers: one flight per offer, in the provider's order
formatFlightOffers(flightOffers) ==
    [i \in DOMAIN flightOffers |->
        LET offer == flightOffers[i]
            itinerary == offer.itineraries[1]
            segment == itinerary.segments[1]
            lastSegment == itinerary.segments[Len(itinerary.segments)]
        IN [airline |-> offer.validatingAirlineCodes[1],
            flight_number |-> segment.carrierCode \o segment.number,
            origin |-> segment.departure.iataCode,
            destination |-> lastSegment.arrival.iataCode,
            departure_date |-> segment.departure.at.date,
            departure_time |-> formatTime(segment.departure.at),
            arrival_time |-> formatTime(lastSegment.arrival.at),
            duration |-> [h |-> 0, m |-> 0],
            price |-> [amount |-> offer.price.total, currency |-> offer.price.currency,
                       per_person |-> offer.price.base],
            stops |-> Len(itinerary.segments) - 1,
            travel_class |-> "economy",
            aircraft |-> "Unknown",
            booking_class |-> "",
            segments |-> Len(itinerary.segments)]]

\* amadeusSearchFlights testing for HTTP 429 before the errors of the body
amadeusSearchFlights_RateLimitFirst(searchParams, answer) ==
    IF answer.kind = "response"
    THEN IF Len(answer.data) = 0
         THEN Throw(FlightAPIError("No flights found for the specified criteria",
                                   errorCodes.FLIGHT_NOT_FOUND,
                                   Details({"searchParams"}, <<>>)))
         ELSE Ok(formatFlightOffers(answer.data))
    ELSE IF answer.status = 429
    THEN Throw(FlightAPIError("API rate limit exceeded. Please try again later",
                              errorCodes.API_RATE_LIMIT, NoDetails))
    ELSE IF Len(answer.errors) > 0
    THEN IF answer.errors[1] = 38189
         THEN Throw(FlightAPIError("Invalid airport code provided",
                                   errorCodes.INVALID_AIRPORT_CODE,
                                   Details({"detail"}, <<>>)))
         ELSE IF answer.errors[1] = 4926
         THEN Throw(FlightAPIError("Invalid date format or date in the past",
                                   errorCodes.INVALID_DATE_FORMAT,
                                   Details({"detail"}, <<>>)))
         ELSE Throw(FlightAPIError("Amadeus API error",
                                   errorCodes.API_UNAVAILABLE,
                                   Details({"code", "detail"}, <<>>)))
    ELSE IF answer.code \in {"ENOTFOUND", "ECONNREFUSED"}
    THEN Throw(FlightAPIError("Unable to connect to flight data service",
                              errorCodes.NETWORK_ERROR,
                              Details({"originalError"}, <<>>)))
    ELSE Throw(FlightAPIError("Failed to search flights",
                              errorCodes.API_UNAVAILABLE,
                              Details({"originalError"}, <<>>)))

\* AmadeusFlightService.searchFlights, given what the provider answers
amadeusSearchFlights(searchParams, answer) ==
    IF answer.kind = "response"
    THEN IF Len(answer.data) = 0
         THEN Throw(FlightAPIError("No flights found for the specified criteria",
                                   errorCodes.FLIGHT_NOT_FOUND,
                                   Details({"searchParams"}, <<>>)))
         ELSE Ok(formatFlightOffers(answer.data))
    ELSE IF Len(answer.errors) > 0
    THEN IF answer.errors[1] = 38189
         THEN Throw(FlightAPIError("Invalid airport code provided",
                                   errorCodes.INVALID_AIRPORT_CODE,
                                   Details({"detail"}, <<>>)))
         ELSE IF answer.errors[1] = 4926
         THEN Throw(FlightAPIError("Invalid date format or date in the past",
                                   errorCodes.INVALID_DATE_FORMAT,
                                   Details({"detail"}, <<>>)))
         ELSE Throw(FlightAPIError("Amadeus API error",
                                   errorCodes.API_UNAVAILABLE,
                                   Details({"code", "detail"}, <<>>)))
    ELSE IF answer.code \in {"ENOTFOUND", "ECONNREFUSED"}
    THEN Throw(FlightAPIError("Unable to connect to flight data service",
                              errorCodes.NETWORK_ERROR,
                              Details({"originalError"}, <<>>)))
    ELSE IF answer.status = 429
    THEN Throw(FlightAPIError("API rate limit exceeded. Please try again later",
                              errorCodes.API_RATE_LIMIT, NoDetails))
    ELSE Throw(FlightAPIError("Failed to search flights",
                              errorCodes.API_UNAVAILABLE,
                              Details({"originalError"}, <<>>)))

\* amadeusGetAirportInfo reporting an empty result as an unavailable provider
amadeusGetAirportInfo_EmptyUnavailable(airportCode, answer) ==
    IF answer.kind = "response" /\ Len(answer.data) > 0
    THEN Ok([code |-> answer.data[1].iataCode, name |-> answer.data[1].name])
    ELSE Throw(FlightAPIError("Failed to get airport information",
                              errorCodes.API_UNAVAILABLE,
                              Details({"originalError"}, <<>>)))

\* AmadeusFlightService.getAirportInfo, given what the provider answers
amadeusGetAirportInfo(airportCode, answer) ==
    IF answer.kind = "response"
    THEN IF Len(answer.data) = 0
         THEN Throw(FlightAPIError("Airport information not found for code",
                                   errorCodes.INVALID_AIRPORT_CODE,
                                   Details({"airport_code"}, airportCode)))
         ELSE Ok([code |-> answer.data[1].iataCode, name |-> answer.data[1].name])
    ELSE Throw(FlightAPIError("Failed to get airport information",
                              errorCodes.API_UNAVAILABLE,
                              Details({"originalError"}, <<>>)))

\* the answers the provider gives in this model
LegLAXJFK ==
    Segment(<<"D","L">>, <<"4","2">>,
            Stop(<<"L","A","X">>, At(DateString(2026, 3, 2), 8, 0)),
            Stop(<<"J","F","K">>, At(DateString(2026, 3, 2), 16, 30)))
LegLAXORD ==
    Segment(<<"U","A">>, <<"7">>,
            Stop(<<"L","A","X">>, At(DateString(2026, 3, 2), 6, 15)),
            Stop(<<"O","R","D">>, At(DateString(2026, 3, 2), 12, 5)))
LegORDJFK ==
    Segment(<<"U","A">>, <<"8","1">>,
            Stop(<<"O","R","D">>, At(DateString(2026, 3, 2), 13, 40)),
            Stop(<<"J","F","K">>, At(DateString(2026, 3, 2), 16, 55)))
LegJFKLHR ==
    Segment(<<"B","6">>, <<"1","2","3">>,
            Stop(<<"J","F","K">>, At(DateString(2026, 3, 2), 19, 20)),
            Stop(<<"L","H","R">>, At(DateString(2026, 3, 3), 7, 10)))

\* no request sent
NoRequest == [k \in {} |-> 0]

cabinClassMap ==
    [economy |-> "ECONOMY", premium_economy |-> "PREMIUM_ECONOMY",
     business |-> "BUSINESS", first |-> "FIRST"]

\* requestParams never carrying a cabin class
requestParams_NoCabin(searchParams) ==
    [originLocationCode |-> searchParams.origin,
     destinationLocationCode |-> searchParams.destination,
     departureDate |-> searchParams.departure_date,
     adults |-> IF searchParams.adults # 0 THEN searchParams.adults ELSE 1,
     currencyCode |-> "USD",
     max |-> 10]
    @@ (IF searchParams.return_date # <<>>
        THEN [returnDate |-> searchParams.return_date] ELSE NoRequest)

\* the requestParams AmadeusFlightService.searchFlights sends to
\* flightOffersSearch.get: returnDate and travelClass only when the search
\* parameters hold a truthy return_date and travel_class
requestParams(searchParams) ==
    [originLocationCode |-> searchParams.origin,
     destinationLocationCode |-> searchParams.destination,
     departureDate |-> searchParams.departure_date,
     adults |-> IF searchParams.adults # 0 THEN searchParams.adults ELSE 1,
     currencyCode |-> "USD",
     max |-> 10]
    @@ (IF searchParams.return_date # <<>>
        THEN [returnDate |-> searchParams.return_date] ELSE NoRequest)
    @@ (IF searchParams.travel_class # ""
        THEN [travelClass |->
                IF searchParams.travel_class \in DOMAIN cabinClassMap
                THEN cabinClassMap[searchParams.travel_class] ELSE "ECONOMY"]
        ELSE NoRequest)

\* the parameters AmadeusFlightService.getAirportInfo sends to
\* referenceData.locations.get
locationsParams(airportCode) ==
    [keyword |-> airportCode, subType |-> "AIRPORT", pageLimit |-> 1]

\* the request the provider client sends for the call of the given operation
ProviderRequest(name, validated) ==
    IF name = "search_flights" THEN requestParams(validated)
    ELSE locationsParams(validated.airport_code)

SearchAnswers ==
    {Response(<<>>),
     Response(<<Offer(1, 450, 400, <<"D","L">>, <<LegLAXJFK>>)>>),
     Response(<<Offer(1, 300, 250, <<"U","A">>, <<LegLAXORD, LegORDJFK>>),
                Offer(2, 200, 150, <<"B","6">>, <<LegLAXJFK>>)>>),
     Failure(<<38189>>, "", 400),
     Failure(<<4926>>, "", 400),
     Failure(<<141>>, "", 500),
     Failure(<<>>, "ENOTFOUND", 0),
     Failure(<<>>, "", 429),
     Failure(<<>>, "", 500)}

AirportAnswers ==
    {Response(<<>>),
     Response(<<[iataCode |-> <<"L","A","X">>, name |-> "LOS ANGELES INTL"]>>),
     Failure(<<>>, "", 500)}

-----------------------------------------------------------------------------
(* index.js: the Query Dispatcher *)

\* args.key: undefined when the arguments hold no such key
Get(args, key) == IF key \in DOMAIN args THEN args[key] ELSE Undefined

\* the constructor of FlightAPIError without a default for its code
CodeOrDefault_NoDefault(key) ==
    IF key \in DOMAIN errorCodes THEN errorCodes[key] ELSE ""

\* new FlightAPIError(message, errorCodes[key], details): a code that is
\* undefined takes the constructor's default
CodeOrDefault(key) ==
    IF key \in DOMAIN errorCodes THEN errorCodes[key] ELSE "GENERAL_ERROR"

\* what one run of a handler up to its first await, or to its end, comes to
Returned(response, generator) ==
    [status |-> "return", response |-> response, err |-> TypeError(""),
     validated |-> <<>>, provider |-> 0, generator |-> generator]
Thrown(err, generator) ==
    [status |-> "throw", response |-> <<>>, err |-> err,
     validated |-> <<>>, provider |-> 0, generator |-> generator]
\* suspended at the await of the one provider call it has made
Awaiting(validated) ==
    [status |-> "await", response |-> <<>>, err |-> TypeError(""),
     validated |-> validated, provider |-> 1, generator |-> 0]

Success(source, label, data) ==
    [kind |-> "text", shape |-> "success", message |-> "", field |-> "",
     value |-> Undefined, code |-> "", source |-> source, label |-> label,
     data |-> data, details |-> NoDetails, lineBreaks |-> {"escaped"}]

\* this.useRealAPI ? ... : ...
Live == useRealAPI = "true"
Label == IF Live THEN "live" ELSE "sample"

\* searchFlightsValidate comparing the codes as given, not as normalized
searchFlightsValidate_RawCompare(args) ==
    LET origin == validateAirportCode(Get(args, "origin"))
        destination == validateAirportCode(Get(args, "destination"))
        departure == validateDate(Get(args, "departure_date"), "departure_date")
        adults == validatePassengerCount(Get(args, "adults"))
        travelClass == validateTravelClass(Get(args, "travel_class"))
        hasReturn == Truthy(Get(args, "return_date"))
        return == validateDate(Get(args, "return_date"), "return_date")
    IN IF ~origin.ok THEN origin
       ELSE IF ~destination.ok THEN destination
       ELSE IF ~departure.ok THEN departure
       ELSE IF ~adults.ok THEN adults
       ELSE IF ~travelClass.ok THEN travelClass
       ELSE IF hasReturn /\ ~return.ok THEN return
       ELSE IF hasReturn /\ NewDate(return.val.s).time <= NewDate(departure.val.s).time
       THEN Throw(ValidationError("Return date must be after departure date",
                                  "return_date", Get(args, "return_date")))
       ELSE IF Get(args, "origin") = Get(args, "destination")
       THEN Throw(ValidationError("Origin and destination airports must be different",
                                  "destination", Get(args, "destination")))
       ELSE Ok([origin |-> origin.val.s, destination |-> destination.val.s,
                departure_date |-> departure.val.s,
                return_date |-> IF hasReturn THEN return.val.s ELSE <<>>,
                adults |-> adults.val.n, travel_class |-> travelClass.val.s])

\* searchFlightsValidate accepting a return on the day of the departure
searchFlightsValidate_SameDayReturn(args) ==
    LET origin == validateAirportCode(Get(args, "origin"))
        destination == validateAirportCode(Get(args, "destination"))
        departure == validateDate(Get(args, "departure_date"), "departure_date")
        adults == validatePassengerCount(Get(args, "adults"))
        travelClass == validateTravelClass(Get(args, "travel_class"))
        hasReturn == Truthy(Get(args, "return_date"))
        return == validateDate(Get(args, "return_date"), "return_date")
    IN IF ~origin.ok THEN origin
       ELSE IF ~destination.ok THEN destination
       ELSE IF ~departure.ok THEN departure
       ELSE IF ~adults.ok THEN adults
       ELSE IF ~travelClass.ok THEN travelClass
       ELSE IF hasReturn /\ ~return.ok THEN return
       ELSE IF hasReturn /\ NewDate(return.val.s).time < NewDate(departure.val.s).time
       THEN Throw(ValidationError("Return date must be after departure date",
                                  "return_date", Get(args, "return_date")))
       ELSE IF origin.val = destination.val
       THEN Throw(ValidationError("Origin and destination airports must be different",
                                  "destination", Get(args, "destination")))
       ELSE Ok([origin |-> origin.val.s, destination |-> destination.val.s,
                departure_date |-> departure.val.s,
                return_date |-> IF hasReturn THEN return.val.s ELSE <<>>,
                adults |-> adults.val.n, travel_class |-> travelClass.val.s])

\* searchFlights, lines 193-221: the validated criteria, or the error thrown
searchFlightsValidate(args) ==
    LET origin == validateAirportCode(Get(args, "origin"))
        destination == validateAirportCode(Get(args, "destination"))
        departure == validateDate(Get(args, "departure_date"), "departure_date")
        adults == validatePassengerCount(Get(args, "adults"))
        travelClass == validateTravelClass(Get(args, "travel_class"))
        hasReturn == Truthy(Get(args, "return_date"))
        return == validateDate(Get(args, "return_date"), "return_date")
    IN IF ~origin.ok THEN origin
       ELSE IF ~destination.ok THEN destination
       ELSE IF ~departure.ok THEN departure
       ELSE IF ~adults.ok THEN adults
       ELSE IF ~travelClass.ok THEN travelClass
       ELSE IF hasReturn /\ ~return.ok THEN return
       ELSE IF hasReturn /\ NewDate(return.val.s).time <= NewDate(departure.val.s).time
       THEN Throw(ValidationError("Return date must be after departure date",
                                  "return_date", Get(args, "return_date")))
       ELSE IF origin.val = destination.val
       THEN Throw(ValidationError("Origin and destination airports must be different",
                                  "destination", Get(args, "destination")))
       ELSE Ok([origin |-> origin.val.s, destination |-> destination.val.s,
                departure_date |-> departure.val.s,
                return_date |-> IF hasReturn THEN return.val.s ELSE <<>>,
                adults |-> adults.val.n, travel_class |-> travelClass.val.s])

\* searchFlights up to its await
searchFlights(hasArgs, args, seed) ==
    IF ~hasArgs
    THEN Thrown(TypeError("Cannot read properties of undefined (reading 'origin')"), 0)
    ELSE LET v == searchFlightsValidate(args)
         IN IF ~v.ok THEN Thrown(v.err, 0)
            ELSE IF Live THEN Awaiting(v.val)
            ELSE LET flights == generateMockFlights(seed, v.val.origin,
                                    v.val.destination, v.val.departure_date,
                                    v.val.adults, v.val.travel_class)
                 IN IF Len(flights) = 0
                    THEN Thrown(FlightAPIError("No flights found for the specified criteria",
                                               errorCodes.FLIGHT_NOT_FOUND,
                                               Details({"origin", "destination", "date"},
                                                       <<>>)), 1)
                    ELSE Returned(Success("generator", Label, flights), 1)

\* searchFlightsResume falling back to generated flights when the provider
\* call fails
searchFlightsResume_SilentFallback(validated, answer) ==
    LET flights == amadeusSearchFlights(validated, answer)
    IN IF ~flights.ok
       THEN Returned(Success("generator", "sample",
                generateMockFlights(0, validated.origin, validated.destination,
                    validated.departure_date, validated.adults,
                    validated.travel_class)), 1)
       ELSE Returned(Success("provider", Label, flights.val), 0)

\* searchFlightsResume asking the provider a second time when its call fails
searchFlightsResume_Retry(validated, answer) ==
    LET flights == amadeusSearchFlights(validated, answer)
    IN IF ~flights.ok THEN [Thrown(flights.err, 0) EXCEPT !.provider = 1]
       ELSE Returned(Success("provider", Label, flights.val), 0)

\* searchFlights from the provider's answer on
searchFlightsResume(validated, answer) ==
    LET flights == amadeusSearchFlights(validated, answer)
    IN IF ~flights.ok THEN Thrown(flights.err, 0)
       ELSE IF Len(flights.val) = 0
       THEN Thrown(FlightAPIError("No flights found for the specified criteria",
                                  errorCodes.FLIGHT_NOT_FOUND,
                                  Details({"origin", "destination", "date"}, <<>>)), 0)
       ELSE Returned(Success("provider", Label, flights.val), 0)

\* getAirportInfo up to its await
getAirportInfo(hasArgs, args) ==
    IF ~hasArgs
    THEN Thrown(TypeError("Cannot read properties of undefined (reading 'airport_code')"), 0)
    ELSE LET v == validateAirportCode(Get(args, "airport_code"))
         IN IF ~v.ok THEN Thrown(v.err, 0)
            ELSE IF Live THEN Awaiting([airport_code |-> v.val.s])
            ELSE IF v.val.s \notin DOMAIN mockAirports
            THEN Thrown(FlightAPIError("Airport information not found for code",
                                       errorCodes.INVALID_AIRPORT_CODE,
                                       Details({"airport_code"}, v.val.s)), 1)
            ELSE Returned(Success("generator", Label, mockAirports[v.val.s]), 1)

\* getAirportInfo from the provider's answer on
getAirportInfoResume(validated, answer) ==
    LET airport == amadeusGetAirportInfo(validated.airport_code, answer)
    IN IF ~airport.ok THEN Thrown(airport.err, 0)
       ELSE Returned(Success("provider", Label, airport.val), 0)

\* getFlightStatus printing the gate whatever the status
getFlightStatus_GateAlways(hasArgs, args, seed) ==
    IF ~hasArgs
    THEN Thrown(TypeError("Cannot read properties of undefined (reading 'flight_number')"), 0)
    ELSE LET flightNumber == validateFlightNumber(Get(args, "flight_number"))
             date == validateDate(Get(args, "date"), "date")
             status == statuses[FloorRandom(RandomDraw(seed, 0), Len(statuses), 0) + 1]
             gate == gates[FloorRandom(RandomDraw(seed, 1), Len(gates), 0) + 1]
         IN IF ~flightNumber.ok THEN Thrown(flightNumber.err, 0)
            ELSE IF ~date.ok THEN Thrown(date.err, 0)
            ELSE Returned(Success("generator", "none",
                    [flight |-> flightNumber.val.s,
                     date |-> date.val.s,
                     status |-> status,
                     gate |-> gate,
                     scheduled |-> IF status # "Cancelled"
                                   THEN generateRandomTime(seed, 2) ELSE <<>>,
                     estimated |-> IF status = "Delayed"
                                   THEN generateRandomTime(seed, 4) ELSE <<>>,
                     actual |-> IF status \in {"Arrived", "Departed"}
                                THEN generateRandomTime(seed, 4) ELSE <<>>]), 1)

getFlightStatus(hasArgs, args, seed) ==
    IF ~hasArgs
    THEN Thrown(TypeError("Cannot read properties of undefined (reading 'flight_number')"), 0)
    ELSE LET flightNumber == validateFlightNumber(Get(args, "flight_number"))
             date == validateDate(Get(args, "date"), "date")
             status == statuses[FloorRandom(RandomDraw(seed, 0), Len(statuses), 0) + 1]
             gate == gates[FloorRandom(RandomDraw(seed, 1), Len(gates), 0) + 1]
         IN IF ~flightNumber.ok THEN Thrown(flightNumber.err, 0)
            ELSE IF ~date.ok THEN Thrown(date.err, 0)
            ELSE Returned(Success("generator", "none",
                    [flight |-> flightNumber.val.s,
                     date |-> date.val.s,
                     status |-> status,
                     gate |-> IF status # "Cancelled" THEN gate ELSE "",
                     scheduled |-> IF status # "Cancelled"
                                   THEN generateRandomTime(seed, 2) ELSE <<>>,
                     estimated |-> IF status = "Delayed"
                                   THEN generateRandomTime(seed, 4) ELSE <<>>,
                     actual |-> IF status \in {"Arrived", "Departed"}
                                THEN generateRandomTime(seed, 4) ELSE <<>>]), 1)

\* /^[A-Za-z]{2,3}$/
airlineRegex(s) == Len(s) \in 2..3 /\ \A i \in 1..Len(s) : IsLetter(s[i])

\* getAirlineInfo printing the code as the caller wrote it
getAirlineInfo_RawCode(hasArgs, args) ==
    IF ~hasArgs
    THEN Thrown(TypeError("Cannot read properties of undefined (reading 'airline_code')"), 0)
    ELSE LET code == Get(args, "airline_code")
         IN IF ~Truthy(code) \/ ~IsString(code)
            THEN Thrown(ValidationError("Airline code is required", "airline_code", code), 0)
            ELSE IF ~airlineRegex(code.s)
            THEN Thrown(ValidationError("Airline code must be 2-3 letters (e.g., AA, DL, UA)",
                                        "airline_code", code), 0)
            ELSE IF toUpperCase(code.s) \notin DOMAIN mockAirlines
            THEN Thrown(FlightAPIError("Airline information not found for code",
                                       errorCodes.FLIGHT_NOT_FOUND,
                                       Details({"airline_code"}, code.s)), 1)
            ELSE Returned(Success("generator", "none",
                    [code |-> code.s,
                     name |-> mockAirlines[toUpperCase(code.s)].name]), 1)

getAirlineInfo(hasArgs, args) ==
    IF ~hasArgs
    THEN Thrown(TypeError("Cannot read properties of undefined (reading 'airline_code')"), 0)
    ELSE LET code == Get(args, "airline_code")
         IN IF ~Truthy(code) \/ ~IsString(code)
            THEN Thrown(ValidationError("Airline code is required", "airline_code", code), 0)
            ELSE IF ~airlineRegex(code.s)
            THEN Thrown(ValidationError("Airline code must be 2-3 letters (e.g., AA, DL, UA)",
                                        "airline_code", code), 0)
            ELSE IF toUpperCase(code.s) \notin DOMAIN mockAirlines
            THEN Thrown(FlightAPIError("Airline information not found for code",
                                       errorCodes.FLIGHT_NOT_FOUND,
                                       Details({"airline_code"}, toUpperCase(code.s))), 1)
            ELSE Returned(Success("generator", "none",
                    [code |-> toUpperCase(code.s),
                     name |-> mockAirlines[toUpperCase(code.s)].name]), 1)

\* the switch of the CallTool handler
Dispatch(request, seed) ==
    CASE request.name = "search_flights" ->
            searchFlights(request.hasArgs, request.arguments, seed)
      [] request.name = "get_airport_info" ->
            getAirportInfo(request.hasArgs, request.arguments)
      [] request.name = "get_flight_status" ->
            getFlightStatus(request.hasArgs, request.arguments, seed)
      [] request.name = "get_airline_info" ->
            getAirlineInfo(request.hasArgs, request.arguments)
      [] OTHER ->
            Thrown(FlightAPIError("Unknown tool", CodeOrDefault("GENERAL_ERROR"), NoDetails), 0)

\* what the handler's promise settles with: the handler's return value, or
\* the value of `return formatError(error)` in its catch block
HandlerResult(step) ==
    IF step.status = "return" THEN step.response ELSE formatError(step.err)

-----------------------------------------------------------------------------
(* The requests and the environment of the model *)

\* how many arguments of a search_flights call differ from a valid call's
MaxDeviations == 2

LAX == <<"L","A","X">>
JFK == <<"J","F","K">>

SearchKeys == {"origin", "destination", "departure_date", "return_date",
               "adults", "travel_class"}

\* a valid one-way search
DefaultSearch ==
    [origin |-> Str(LAX), destination |-> Str(JFK),
     departure_date |-> Str(DateString(2026, 3, 2)), return_date |-> Undefined,
     adults |-> Undefined, travel_class |-> Undefined]

\* the other values each argument takes
OtherValues ==
    [origin |-> {Str(<<"j","f","k">>), Str(<<"L","4","X">>), Undefined, Obj(FALSE)},
     destination |-> {Str(<<"l","a","x">>), Str(<<"J","F","K","X">>), Num(5)},
     departure_date |-> {Str(DateString(2025, 12, 25)), Str(DateString(2026, 2, 30)),
                         Str(DateString(2026, 13, 1)),
                         Str(<<"2","0","2","6","-","3","-","2">>)},
     return_date |-> {Str(DateString(2026, 3, 2)), Str(DateString(2026, 3, 5)),
                      Str(DateString(2026, 2, 28)), Obj(FALSE)},
     adults |-> {Num(2), Num(0), Num(10), Str(<<"2">>)},
     travel_class |-> {Str("business"), Str("luxury"), Str("")}]

Deviations(args) == Cardinality({k \in SearchKeys : args[k] # DefaultSearch[k]})

SearchArguments ==
    {args \in {[origin |-> o, destination |-> d, departure_date |-> dep,
                return_date |-> ret, adults |-> ad, travel_class |-> tc] :
                   o \in OtherValues.origin \cup {DefaultSearch.origin},
                   d \in OtherValues.destination \cup {DefaultSearch.destination},
                   dep \in OtherValues.departure_date \cup {DefaultSearch.departure_date},
                   ret \in OtherValues.return_date \cup {DefaultSearch.return_date},
                   ad \in OtherValues.adults \cup {DefaultSearch.adults},
                   tc \in OtherValues.travel_class \cup {DefaultSearch.travel_class}} :
        Deviations(args) <= MaxDeviations}

Request(name, arguments) == [name |-> name, hasArgs |-> TRUE, arguments |-> arguments]
\* a call whose params carry no arguments object
NoArguments(name) == [name |-> name, hasArgs |-> FALSE, arguments |-> <<>>]

Requests ==
    {Request("search_flights", args) : args \in SearchArguments}
    \cup {Request("get_airport_info", [airport_code |-> c]) :
            c \in {Str(LAX), Str(<<"j","f","k">>), Str(<<"X","Y","Z">>), Str(<<"x","y","z">>),
                   Str(<<"L","A">>), Str(<<"L","A","\n">>),
                   Str(<<>>), Undefined, Obj(FALSE)}}
    \cup {Request("get_flight_status", [flight_number |-> f, date |-> d]) :
            f \in {Str(<<"A","A","1","2","3">>), Str(<<"d","l","1","2","3","4">>),
                   Str(<<"B","6","1","2","3","4">>), Undefined},
            d \in {Str(DateString(2026, 3, 2)), Str(DateString(2025, 12, 24)), Num(20260302)}}
    \cup {Request("get_airline_info", [airline_code |-> c]) :
            c \in {Str(<<"A","A">>), Str(<<"a","A">>), Str(<<"d","l">>), Str(<<"Z","Z">>),
                   Str(<<"z","z">>), Str(<<"B","6">>),
                   Undefined, Obj(FALSE)}}
    \cup {Request("book_flight", [origin |-> Str(LAX)])}
    \cup {NoArguments(name) : name \in {"search_flights", "get_airport_info",
                                        "get_flight_status", "get_airline_info",
                                        "book_flight"}}

\* the clock at startup: 2025-12-24T20:00Z and 2025-12-26T02:00Z
Instants == {MakeDay(2025, 12, 24) * 24 + 20, MakeDay(2025, 12, 26) * 24 + 2}
\* New York (winter) and Singapore
TimeZones == {-5, 8}

-----------------------------------------------------------------------------
(* The server *)

NoResponse ==
    [kind |-> "none", shape |-> "", message |-> "", field |-> "", value |-> Undefined,
     code |-> "", source |-> "none", label |-> "none", data |-> <<>>,
     details |-> NoDetails, lineBreaks |-> {}]

Idle ==
    [pc |-> "idle", request |-> NoArguments(""), validated |-> <<>>,
     response |-> NoResponse, providerCalls |-> 0, generatorCalls |-> 0,
     providerRequest |-> NoRequest, providerResult |-> Ok(<<>>)]

NoFn == [name |-> "", arg |-> Undefined, out |-> Ok(Undefined)]

\* a constructor that starts the probe whether or not the Provider Client
\* could be built
Constructed_ProbesAnyway ==
    /\ useRealAPI = "undefined"
    /\ probe = "pending"
    /\ flagWrites = 0
    /\ writers = {}
    /\ call = Idle
    /\ servedModes = {}
    /\ fn = NoFn

\* The state once `new FlightMCPServer()` has returned. With credentials the
\* constructor has started the probe, which is suspended at its await; without
\* them AmadeusFlightService's constructor has thrown and the catch block has
\* set the flag.
Constructed ==
    /\ useRealAPI = IF credentials THEN "undefined" ELSE "false"
    /\ probe = IF credentials THEN "pending" ELSE "none"
    /\ flagWrites = IF credentials THEN 0 ELSE 1
    /\ writers = IF credentials THEN {} ELSE {"constructor"}
    /\ call = Idle
    /\ servedModes = {}
    /\ fn = NoFn

Init ==
    /\ credentials \in BOOLEAN
    /\ now \in Instants
    /\ tz \in TimeZones
    /\ Constructed

\* the fixed criteria of the probe's search
testSearchParams ==
    [origin |-> <<"N","Y","C">>, destination |-> <<"L","A","X">>,
     departure_date |-> DateString(2025, 12, 25), return_date |-> <<>>,
     adults |-> 1, travel_class |-> "economy"]

\* testAmadeusConnection taking any response of the provider, even an empty
\* one, for a success
testAmadeusConnection_Optimistic(answer) ==
    IF answer.kind = "response" THEN "true" ELSE "false"

\* testAmadeusConnection from the provider's answer on
testAmadeusConnection(answer) ==
    LET flights == amadeusSearchFlights(testSearchParams, answer)
    IN IF flights.ok /\ Len(flights.val) > 0 THEN "true" ELSE "false"

\* ProbeSettles where the probe can settle again and rewrite the flag
ProbeSettles_Again(answer) ==
    /\ probe \in {"pending", "done"}
    /\ probe' = "done"
    /\ useRealAPI' = testAmadeusConnection(answer)
    /\ flagWrites' = IF probe = "pending" THEN flagWrites + 1 ELSE flagWrites
    /\ writers' = writers \cup {"testAmadeusConnection"}
    /\ UNCHANGED <<credentials, now, tz, call, servedModes, fn>>

ProbeSettles(answer) ==
    /\ probe = "pending"
    /\ probe' = "done"
    /\ useRealAPI' = testAmadeusConnection(answer)
    /\ flagWrites' = flagWrites + 1
    /\ writers' = writers \cup {"testAmadeusConnection"}
    /\ UNCHANGED <<credentials, now, tz, call, servedModes, fn>>

\* whether handling the request reaches a call of Math.random
DrawsRandom(request) ==
    /\ request.hasArgs
    /\ \/ /\ request.name = "search_flights"
          /\ ~Live
          /\ searchFlightsValidate(request.arguments).ok
       \/ /\ request.name = "get_flight_status"
          /\ validateFlightNumber(Get(request.arguments, "flight_number")).ok
          /\ validateDate(Get(request.arguments, "date"), "date").ok

\* The CallTool handler, from the request to its first await or to its answer
CallTool(request, seed) ==
    /\ call.pc = "idle"
    /\ LET step == Dispatch(request, seed)
       IN /\ call' = [pc |-> IF step.status = "await" THEN "awaiting" ELSE "done",
                      request |-> request,
                      validated |-> step.validated,
                      response |-> IF step.status = "await" THEN NoResponse
                                   ELSE HandlerResult(step),
                      providerCalls |-> step.provider,
                      generatorCalls |-> step.generator,
                      providerRequest |-> IF step.status = "await"
                                          THEN ProviderRequest(request.name,
                                                               step.validated)
                                          ELSE NoRequest,
                      providerResult |-> Ok(<<>>)]
          /\ servedModes' =
                IF step.status = "await" THEN servedModes \cup {"Live"}
                ELSE IF step.generator > 0
                        /\ request.name \in {"search_flights", "get_airport_info"}
                THEN servedModes \cup {"Fallback"}
                ELSE servedModes
    /\ UNCHANGED <<useRealAPI, probe, flagWrites, writers, credentials, now, tz, fn>>

\* SearchSettles leaving Live mode when the provider call fails
SearchSettles_Demotes(answer) ==
    /\ call.pc = "awaiting"
    /\ call.request.name = "search_flights"
    /\ LET step == searchFlightsResume(call.validated, answer)
       IN /\ call' = [call EXCEPT
                        !.pc = "done",
                        !.response = HandlerResult(step),
                        !.generatorCalls = step.generator,
                        !.providerCalls = call.providerCalls + step.provider,
                        !.providerResult = amadeusSearchFlights(call.validated, answer)]
          /\ useRealAPI' = IF step.status = "throw" THEN "false" ELSE useRealAPI
          /\ flagWrites' = IF step.status = "throw" THEN flagWrites + 1 ELSE flagWrites
          /\ writers' = IF step.status = "throw" THEN writers \cup {"searchFlights"}
                        ELSE writers
    /\ UNCHANGED <<probe, credentials, now, tz, servedModes, fn>>

\* The provider answers the search of the call and searchFlights runs to its
\* end
SearchSettles(answer) ==
    /\ call.pc = "awaiting"
    /\ call.request.name = "search_flights"
    /\ LET step == searchFlightsResume(call.validated, answer)
       IN call' = [call EXCEPT
                     !.pc = "done",
                     !.response = HandlerResult(step),
                     !.generatorCalls = step.generator,
                     !.providerCalls = call.providerCalls + step.provider,
                     !.providerResult = amadeusSearchFlights(call.validated, answer)]
    /\ UNCHANGED <<useRealAPI, probe, flagWrites, writers, credentials, now, tz,
                   servedModes, fn>>

\* The provider answers the airport lookup of the call and getAirportInfo
\* runs to its end
AirportSettles(answer) ==
    /\ call.pc = "awaiting"
    /\ call.request.name = "get_airport_info"
    /\ LET step == getAirportInfoResume(call.validated, answer)
       IN call' = [call EXCEPT
                     !.pc = "done",
                     !.response = HandlerResult(step),
                     !.generatorCalls = step.generator,
                     !.providerCalls = call.providerCalls + step.provider,
                     !.providerResult =
                         amadeusGetAirportInfo(call.validated.airport_code, answer)]
    /\ UNCHANGED <<useRealAPI, probe, flagWrites, writers, credentials, now, tz,
                   servedModes, fn>>

\* The transport sends the answer; the server is ready for the next request
Respond ==
    /\ call.pc = "done"
    /\ call' = Idle
    /\ UNCHANGED <<useRealAPI, probe, flagWrites, writers, credentials, now, tz,
                   servedModes, fn>>

Next ==
    \/ \E answer \in SearchAnswers : ProbeSettles(answer)
    \/ /\ call.pc = "idle"
       /\ \E request \in Requests :
             \E seed \in IF DrawsRandom(request) THEN Seeds ELSE {0} :
                CallTool(request, seed)
    \/ \E answer \in SearchAnswers : SearchSettles(answer)
    \/ \E answer \in AirportAnswers : AirportSettles(answer)
    \/ Respond

Spec == Init /\ [][Next]_vars

-----------------------------------------------------------------------------
(* The validators on their own: each step applies one to an input *)

\* the longest airport code tried
MaxCodeLen == 4

RECURSIVE StringsUpTo(_, _)
StringsUpTo(alphabet, n) ==
    IF n = 0 THEN {<<>>}
    ELSE LET shorter == StringsUpTo(alphabet, n - 1)
         IN shorter \cup {Append(s, c) : s \in {t \in shorter : Len(t) = n - 1},
                                          c \in alphabet}

AirportCodeInputs ==
    {Str(s) : s \in StringsUpTo({"a", "k", "Z", "4", "-"}, MaxCodeLen)}
    \cup {Undefined, Num(123), Obj(TRUE)}

DateInputs ==
    {Str(DateString(y, m, d)) : y \in {2025, 2026}, m \in {0, 1, 2, 3, 4, 11, 12, 13},
                                d \in 0..32}
    \cup {Str(<<"2","0","2","6","-","3","-","2">>),
          Str(<<"0","3","/","0","2","/","2","0","2","6">>),
          Str(DateString(2026, 3, 2) \o <<"T">>),
          Str(<<>>)}

\* every third offset from UTC-11 to UTC+13
ValidatorTimeZones == {-11, -8, -5, -2, 1, 4, 7, 10, 13}

InitValidators ==
    /\ credentials = FALSE
    /\ now \in Instants
    /\ tz \in ValidatorTimeZones
    /\ Constructed

ApplyValidateAirportCode(code) ==
    /\ fn = NoFn
    /\ fn' = [name |-> "validateAirportCode", arg |-> code,
              out |-> validateAirportCode(code)]
    /\ UNCHANGED <<useRealAPI, probe, flagWrites, writers, credentials, now, tz,
                   call, servedModes>>

ApplyValidateDate(dateString) ==
    /\ fn = NoFn
    /\ fn' = [name |-> "validateDate", arg |-> dateString,
              out |-> validateDate(dateString, "date")]
    /\ UNCHANGED <<useRealAPI, probe, flagWrites, writers, credentials, now, tz,
                   call, servedModes>>

\* what the provider can answer a search with: data, or an error with any
\* combination of body errors, system error code and HTTP status
ProviderAnswers ==
    SearchAnswers
    \cup {Failure(errors, code, status) :
            errors \in {<<>>, <<38189>>, <<4926>>, <<141>>, <<141, 38189>>,
                        <<4926, 38189>>},
            code \in {"", "ENOTFOUND", "ECONNREFUSED", "ETIMEDOUT"},
            status \in {0, 400, 429, 500}}

ApplyAmadeusSearchFlights(answer) ==
    /\ fn = NoFn
    /\ fn' = [name |-> "amadeusSearchFlights", arg |-> answer,
              out |-> amadeusSearchFlights("searchParams", answer)]
    /\ UNCHANGED <<useRealAPI, probe, flagWrites, writers, credentials, now, tz,
                   call, servedModes>>

\* travel classes in and out of the enumeration, and values of other types
TravelClassInputs ==
    {Str(c) : c \in validClasses \cup {"", "luxury", "Economy", "BUSINESS"}}
    \cup {Undefined, Num(0), Num(1), Obj(TRUE)}

ApplyValidateTravelClass(travelClass) ==
    /\ fn = NoFn
    /\ fn' = [name |-> "validateTravelClass", arg |-> travelClass,
              out |-> validateTravelClass(travelClass)]
    /\ UNCHANGED <<useRealAPI, probe, flagWrites, writers, credentials, now, tz,
                   call, servedModes>>

\* the most offers in a provider response handed to formatFlightOffers
MaxOffers == 2

\* the itineraries of the offers: one to three segments
ItineraryInputs ==
    {<<LegLAXJFK>>, <<LegLAXORD, LegORDJFK>>, <<LegLAXORD, LegORDJFK, LegJFKLHR>>,
     <<LegJFKLHR>>}

\* one-way offers, and round trips with a second itinerary
OfferInputs ==
    {Offer(1, total, total - 50, <<"U","A">>, segments) :
        total \in {200, 450}, segments \in ItineraryInputs}
    \cup {[Offer(2, 600, 500, <<"D","L">>, segments) EXCEPT
             !.itineraries = <<[segments |-> segments],
                               [segments |-> <<LegJFKLHR, LegLAXJFK>>]>>] :
            segments \in ItineraryInputs}

RECURSIVE OfferLists(_)
OfferLists(n) ==
    IF n = 0 THEN {<<>>}
    ELSE LET shorter == OfferLists(n - 1)
         IN shorter \cup {Append(l, o) : l \in {t \in shorter : Len(t) = n - 1},
                                          o \in OfferInputs}

ApplyFormatFlightOffers(flightOffers) ==
    /\ fn = NoFn
    /\ fn' = [name |-> "formatFlightOffers", arg |-> flightOffers,
              out |-> formatFlightOffers(flightOffers)]
    /\ UNCHANGED <<useRealAPI, probe, flagWrites, writers, credentials, now, tz,
                   call, servedModes>>

NextValidators ==
    \/ \E flightOffers \in OfferLists(MaxOffers) \ {<<>>} :
          ApplyFormatFlightOffers(flightOffers)
    \/ \E code \in AirportCodeInputs : ApplyValidateAirportCode(code)
    \/ \E dateString \in DateInputs : ApplyValidateDate(dateString)
    \/ \E answer \in ProviderAnswers : ApplyAmadeusSearchFlights(answer)
    \/ \E travelClass \in TravelClassInputs : ApplyValidateTravelClass(travelClass)

SpecValidators == InitValidators /\ [][NextValidators]_vars

-----------------------------------------------------------------------------
(* The claims about the validators, checked under SpecValidators *)

\* the kind of an error: a FlightAPIError's code, else the error's class
ErrorKind(err) == IF err.name = "FlightAPIError" THEN err.code ELSE err.name

ThreeLetters(v) ==
    v.t = "string" /\ Len(v.s) = 3 /\ \A k \in 1..3 : v.s[k] \in Letters

\* out spells in, with every letter in upper case
IsUpperCaseOf(out, in) ==
    /\ Len(out) = Len(in)
    /\ \A k \in 1..Len(in) :
          \E i \in DOMAIN UpperCase :
              in[k] \in {UpperCase[i], LowerCase[i]} /\ out[k] = UpperCase[i]

\* C9 as stated: validateAirportCode returns the upper-case form of every
\* string of exactly 3 ASCII letters, and fails with the error kind
\* InvalidAirportCode on every other input.
C9_AsStated ==
    fn.name = "validateAirportCode" =>
        IF ThreeLetters(fn.arg)
        THEN fn.out.ok /\ fn.out.val.t = "string"
             /\ IsUpperCaseOf(fn.out.val.s, fn.arg.s)
        ELSE ~fn.out.ok /\ ErrorKind(fn.out.err) = errorCodes.INVALID_AIRPORT_CODE

\* C9 amended: validateAirportCode returns the upper-case form of every
\* string of exactly 3 ASCII letters, and on every other input fails with a
\* ValidationError whose field is "airport_code" and whose value is the
\* input; the error carries no InvalidAirportCode code.
C9_ValidationErrorOnBadCode ==
    fn.name = "validateAirportCode" =>
        IF ThreeLetters(fn.arg)
        THEN fn.out.ok /\ fn.out.val.t = "string"
             /\ IsUpperCaseOf(fn.out.val.s, fn.arg.s)
        ELSE ~fn.out.ok /\ ErrorKind(fn.out.err) = "ValidationError"
             /\ fn.out.err.field = "airport_code" /\ fn.out.err.value = fn.arg

\* a code with a lower-case letter has been validated and came back changed
C9_Witness ==
    /\ fn.name = "validateAirportCode"
    /\ ThreeLetters(fn.arg)
    /\ fn.out.ok
    /\ fn.out.val.s # fn.arg.s

\* the day number of today's date in the process's timezone
LocalToday == (now + tz) \div 24

DayOf(s) == MakeDay(DateYear(s), DateMonth(s), DateDay(s))
IsRealDate(s) == IsCalendarDate(DateYear(s), DateMonth(s), DateDay(s))

\* C7 as stated: in every timezone validateDate throws on a string that does
\* not match \d{4}-\d{2}-\d{2} or that denotes a date before today's local
\* date, and returns the string unchanged when it matches and denotes
\* today's local date or a later calendar date.
C7_AsStated ==
    (fn.name = "validateDate" /\ fn.arg.t = "string") =>
        /\ (~dateRegex(fn.arg.s)
              \/ (IsRealDate(fn.arg.s) /\ DayOf(fn.arg.s) < LocalToday))
           => ~fn.out.ok
        /\ (dateRegex(fn.arg.s) /\ IsRealDate(fn.arg.s)
              /\ DayOf(fn.arg.s) >= LocalToday)
           => fn.out = Ok(fn.arg)

\* C8 as stated: validateDate rejects every string that matches the pattern
\* and names no real calendar date (month outside 01-12, day 00, or a day
\* beyond the length of the month).
C8_AsStated ==
    (fn.name = "validateDate" /\ fn.arg.t = "string" /\ dateRegex(fn.arg.s)
        /\ ~IsRealDate(fn.arg.s))
    => ~fn.out.ok

-----------------------------------------------------------------------------
(* The claims about the server, checked under Spec *)

\* ^[A-Z]{2}\d{4}$
FlightNumberPattern(s) ==
    /\ Len(s) = 6
    /\ s[1] \in UpperLetters /\ s[2] \in UpperLetters
    /\ \A k \in 3..6 : s[k] \in Digits

IsSortedByPrice(fs) ==
    \A i \in 1..(Len(fs) - 1) : fs[i].price.amount <= fs[i + 1].price.amount

\* the call in progress is a search_flights call the generator has served
ServedByGenerator ==
    /\ call.pc = "done"
    /\ call.request.name = "search_flights"
    /\ call.generatorCalls > 0

\* C1 as stated: in Fallback mode every search_flights call with valid
\* arguments returns exactly 5 offers in ascending order of total price, each
\* with a total price above 0 and a flight number of two upper-case letters
\* followed by four digits.
C1_AsStated ==
    ServedByGenerator =>
        /\ call.response.shape = "success"
        /\ Len(call.response.data) = 5
        /\ IsSortedByPrice(call.response.data)
        /\ \A i \in 1..Len(call.response.data) :
              /\ call.response.data[i].price.amount > 0
              /\ FlightNumberPattern(call.response.data[i].flight_number)

\* C2 as stated: every call of one process is served in the same mode, Live
\* or Fallback, whenever it arrives after the server has started.
C2_AsStated == Cardinality(servedModes) <= 1

\* C3: the flag useRealAPI is written at most once, only by the constructor's
\* failure branch or by the probe, exactly once as soon as the probe is no
\* longer pending, and no step of a request handler changes it.
C3_FlagWrittenOnce ==
    /\ [](/\ flagWrites <= 1
          /\ writers \subseteq {"constructor", "testAmadeusConnection"}
          /\ (probe # "pending" => flagWrites = 1 /\ Cardinality(writers) = 1))
    /\ [][call' # call =>
            (useRealAPI' = useRealAPI /\ flagWrites' = flagWrites
               /\ writers' = writers)]_vars

\* the probe has written the flag and a handler has since run through a
\* provider call that failed
C3_Witness ==
    /\ probe = "done"
    /\ flagWrites = 1
    /\ writers = {"testAmadeusConnection"}
    /\ call.pc = "done"
    /\ call.providerCalls = 1
    /\ ~call.providerResult.ok

\* an argument of the request fails its field's validation, or the request
\* fails a cross-field rule of search_flights
Rejected(request) ==
    /\ request.hasArgs
    /\ CASE request.name = "search_flights" ->
              ~searchFlightsValidate(request.arguments).ok
         [] request.name = "get_airport_info" ->
              ~validateAirportCode(Get(request.arguments, "airport_code")).ok
         [] request.name = "get_flight_status" ->
              \/ ~validateFlightNumber(Get(request.arguments, "flight_number")).ok
              \/ ~validateDate(Get(request.arguments, "date"), "date").ok
         [] request.name = "get_airline_info" ->
              LET code == Get(request.arguments, "airline_code")
              IN ~(Truthy(code) /\ IsString(code) /\ airlineRegex(code.s))
         [] OTHER -> FALSE

\* C4 as stated: a call of any of the four operations with an argument that
\* fails validation is answered with a validation-error response, and neither
\* the provider client nor the generator is invoked during the call.
C4_AsStated ==
    (call.pc # "idle" /\ Rejected(call.request)) =>
        /\ call.pc = "done"
        /\ call.response.kind = "text"
        /\ call.response.shape = "validation"
        /\ call.providerCalls = 0
        /\ call.generatorCalls = 0

\* C5 as stated: every call the handler has finished with is answered with a
\* text payload; no exception escapes the handler.
C5_AsStated == call.pc = "done" => call.response.kind = "text"

SameCodeIgnoringCase(a, b) ==
    /\ Len(a) = Len(b)
    /\ \A k \in 1..Len(a) :
          \E i \in DOMAIN UpperCase :
              /\ a[k] \in {UpperCase[i], LowerCase[i]}
              /\ b[k] \in {UpperCase[i], LowerCase[i]}

\* a search_flights call whose origin and destination are the same code and
\* whose arguments each pass their own validation
SameAirports(request) ==
    /\ request.name = "search_flights"
    /\ request.hasArgs
    /\ LET args == request.arguments
       IN /\ validateAirportCode(args.origin).ok
          /\ validateAirportCode(args.destination).ok
          /\ SameCodeIgnoringCase(args.origin.s, args.destination.s)
          /\ validateDate(args.departure_date, "departure_date").ok
          /\ validatePassengerCount(args.adults).ok
          /\ validateTravelClass(args.travel_class).ok
          /\ (Truthy(args.return_date) =>
                 validateDate(args.return_date, "return_date").ok)

\* the request carries no return date, or one after its departure date
ReturnsAfterDeparture(request) ==
    LET args == request.arguments
    IN Truthy(args.return_date) =>
          NewDate(args.return_date.s).time > NewDate(args.departure_date.s).time

AnsweredWithDestinationError ==
    /\ call.pc = "done"
    /\ call.response.kind = "text"
    /\ call.response.shape = "validation"
    /\ call.response.field = "destination"
    /\ call.providerCalls = 0
    /\ call.generatorCalls = 0

\* C10 as stated: every search_flights call whose origin and destination are
\* equal after upper-casing and whose other arguments each pass their own
\* validation, with or without a return date, fails with a validation error
\* whose field is "destination".
C10_AsStated ==
    (call.pc # "idle" /\ SameAirports(call.request)) => AnsweredWithDestinationError

\* C10 amended: such a call fails with a validation error whose field is
\* "destination" when it carries no return date or a return date after the
\* departure date; with a return date on or before the departure date the
\* error names "return_date".
C10_DestinationErrorUnlessReturnFirst ==
    (call.pc # "idle" /\ SameAirports(call.request)) =>
        IF ReturnsAfterDeparture(call.request)
        THEN AnsweredWithDestinationError
        ELSE /\ call.pc = "done"
             /\ call.response.shape = "validation"
             /\ call.response.field = "return_date"

\* in Live mode a round trip from "jfk" to "JFK" has been refused
C10_Witness ==
    /\ Live
    /\ call.pc = "done"
    /\ SameAirports(call.request)
    /\ call.request.arguments.origin # call.request.arguments.destination
    /\ Truthy(call.request.arguments.return_date)
    /\ call.response.field = "destination"

\* a search_flights call whose arguments validated before the return date
\* (origin, destination, departure date, adults, travel class) all pass, and
\* whose return date names a real calendar date
SuppliesReturnDate(request) ==
    /\ request.name = "search_flights"
    /\ request.hasArgs
    /\ LET args == request.arguments
       IN /\ validateAirportCode(args.origin).ok
          /\ validateAirportCode(args.destination).ok
          /\ validateDate(args.departure_date, "departure_date").ok
          /\ validatePassengerCount(args.adults).ok
          /\ validateTravelClass(args.travel_class).ok
          /\ IsString(args.return_date)
          /\ dateRegex(args.return_date.s)
          /\ IsRealDate(args.return_date.s)

ReturnDateRuleMessage == "Return date must be after departure date"

ValidStatusCall(request) ==
    /\ request.name = "get_flight_status"
    /\ request.hasArgs
    /\ validateFlightNumber(Get(request.arguments, "flight_number")).ok
    /\ validateDate(Get(request.arguments, "date"), "date").ok

\* a time of day written HH:MM
IsTimeOfDay(t) ==
    /\ Len(t) = 5
    /\ t[3] = ":"
    /\ \A k \in {1, 2, 4, 5} : t[k] \in Digits
    /\ ParseDigits(SubSeq(t, 1, 2)) < 24
    /\ ParseDigits(SubSeq(t, 4, 5)) < 60

\* C12: a valid get_flight_status call is answered with one of the six
\* statuses; when the status is Cancelled the answer has no gate and no
\* scheduled departure, and with any other status it has a gate of the fixed
\* gate set and a scheduled departure time.
C12_GateUnlessCancelled ==
    (call.pc # "idle" /\ ValidStatusCall(call.request)) =>
        /\ call.pc = "done"
        /\ call.response.shape = "success"
        /\ call.response.data.status \in Range(statuses)
        /\ IF call.response.data.status = "Cancelled"
           THEN /\ call.response.data.gate = ""
                /\ call.response.data.scheduled = <<>>
           ELSE /\ call.response.data.gate \in Range(gates)
                /\ IsTimeOfDay(call.response.data.scheduled)

\* a valid status call has been answered with a cancelled flight
C12_Witness ==
    /\ call.pc = "done"
    /\ ValidStatusCall(call.request)
    /\ call.response.data.status = "Cancelled"
    /\ call.response.data.gate = ""

\* a get_airline_info call whose code is 2 or 3 letters
ValidAirlineCall(request) ==
    /\ request.name = "get_airline_info"
    /\ request.hasArgs
    /\ IsString(Get(request.arguments, "airline_code"))
    /\ Len(request.arguments.airline_code.s) \in 2..3
    /\ \A k \in 1..Len(request.arguments.airline_code.s) :
          request.arguments.airline_code.s[k] \in Letters

AirlineRequests == {r \in Requests : ValidAirlineCall(r)}

\* C13: the answer to a get_airline_info call with a valid code is the answer
\* every call with the same code, in any case and in any mode, gets: the
\* answer the handler would give now, whatever the flag has become since, to
\* any request whose code spells the same letters.
C13_AirlineInfoDeterministic ==
    (call.pc = "done" /\ ValidAirlineCall(call.request)) =>
        \A r \in AirlineRequests : \A seed \in Seeds :
            SameCodeIgnoringCase(r.arguments.airline_code.s,
                                 call.request.arguments.airline_code.s)
            => HandlerResult(Dispatch(r, seed)) = call.response

\* a known airline asked for in mixed case has been answered, the server is
\* in Live mode, and the same airline can be asked for in upper case
C13_Witness ==
    /\ call.pc = "done"
    /\ ValidAirlineCall(call.request)
    /\ call.request.arguments.airline_code.s
          # toUpperCase(call.request.arguments.airline_code.s)
    /\ call.response.shape = "success"
    /\ Live
    /\ \E r \in AirlineRequests :
          /\ r # call.request
          /\ SameCodeIgnoringCase(r.arguments.airline_code.s,
                                  call.request.arguments.airline_code.s)

\* a get_airport_info call whose code is 3 letters
ValidAirportCall(request) ==
    /\ request.name = "get_airport_info"
    /\ request.hasArgs
    /\ ThreeLetters(Get(request.arguments, "airport_code"))

\* the call has been answered with the error kind InvalidAirportCode
AnsweredInvalidAirportCode(c) ==
    /\ c.pc = "done"
    /\ c.response.kind = "text"
    /\ c.response.shape = "domain"
    /\ c.response.code = errorCodes.INVALID_AIRPORT_CODE

\* C14: a get_airport_info call with a 3-letter code fails with the error
\* kind InvalidAirportCode when it is served from the reference table and
\* the table has no such code, and when it is served by the provider and the
\* provider's lookup comes back empty.
C14_UnknownAirport ==
    /\ []((/\ call.pc = "done"
           /\ ValidAirportCall(call.request)
           /\ call.generatorCalls > 0
           /\ toUpperCase(call.request.arguments.airport_code.s)
                 \notin {<<"L","A","X">>, <<"J","F","K">>, <<"L","H","R">>,
                         <<"N","R","T">>})
          => AnsweredInvalidAirportCode(call))
    /\ [][AirportSettles(Response(<<>>)) => AnsweredInvalidAirportCode(call')]_vars

\* in Live mode the provider's lookup of a 3-letter code has come back empty
\* and the call has been answered with InvalidAirportCode
C14_Witness ==
    /\ Live
    /\ ValidAirportCall(call.request)
    /\ call.providerCalls = 1
    /\ ~call.providerResult.ok
    /\ AnsweredInvalidAirportCode(call)

-----------------------------------------------------------------------------
(* The claim about the provider client, checked under SpecValidators *)

\* the error kind the rules of the failure mapping give, taken in their
\* order; a rule about the provider's structured error looks at the first
\* error of the body
MappedKind(answer) ==
    IF answer.kind = "response" THEN errorCodes.FLIGHT_NOT_FOUND
    ELSE IF answer.errors # <<>> /\ Head(answer.errors) = 38189
    THEN errorCodes.INVALID_AIRPORT_CODE
    ELSE IF answer.errors # <<>> /\ Head(answer.errors) = 4926
    THEN errorCodes.INVALID_DATE_FORMAT
    ELSE IF answer.errors # <<>> THEN errorCodes.API_UNAVAILABLE
    ELSE IF answer.code \in {"ENOTFOUND", "ECONNREFUSED"}
    THEN errorCodes.NETWORK_ERROR
    ELSE IF answer.status = 429 THEN errorCodes.API_RATE_LIMIT
    ELSE errorCodes.API_UNAVAILABLE

\* C15: the provider client's search returns flights when the provider
\* returns offers, and otherwise throws a FlightAPIError of the kind the
\* first matching rule gives: no offers, bad-location error, bad-date error,
\* other structured error, DNS or refused connection, HTTP 429, anything
\* else. It throws nothing but a FlightAPIError.
C15_FailureMapping ==
    fn.name = "amadeusSearchFlights" =>
        IF fn.arg.kind = "response" /\ Len(fn.arg.data) > 0
        THEN fn.out.ok /\ Len(fn.out.val) = Len(fn.arg.data)
        ELSE /\ ~fn.out.ok
             /\ fn.out.err.name = "FlightAPIError"
             /\ fn.out.err.code = MappedKind(fn.arg)

\* a rate-limited answer with a structured error and a refused connection
\* has been mapped by the structured error's rule
C15_Witness ==
    /\ fn.name = "amadeusSearchFlights"
    /\ fn.arg.kind = "error"
    /\ fn.arg.errors = <<141>>
    /\ fn.arg.code = "ECONNREFUSED"
    /\ fn.arg.status = 429
    /\ fn.out.err.code = errorCodes.API_UNAVAILABLE

-----------------------------------------------------------------------------
(* More claims about the server, checked under Spec *)

\* the calls without an arguments object
BareRequests == {r \in Requests : ~r.hasArgs}

\* C16 as stated: when a call fails with an error that is neither a
\* ValidationError nor a FlightAPIError, the text it is answered with is the
\* text every other call failing with such an error is answered with,
\* whatever the internal error's message.
C16_AsStated ==
    (call.pc = "done" /\ call.response.shape = "unexpected") =>
        \A r \in BareRequests :
            HandlerResult(Dispatch(r, 0)).shape = "unexpected"
            => HandlerResult(Dispatch(r, 0)).message = call.response.message

\* C17 as stated: every validation-error response names the argument of the
\* operation that was rejected and carries that argument's value; an invalid
\* origin of search_flights is reported under "origin", an invalid
\* destination under "destination".
C17_AsStated ==
    (call.pc = "done" /\ call.response.shape = "validation") =>
        /\ call.response.field \in DOMAIN call.request.arguments
        /\ call.request.arguments[call.response.field] = call.response.value

\* C18 as stated: no text the server answers with, a success of any of the
\* four operations or an error of any of the three shapes, holds a newline
\* character; every line break is the two characters backslash and n.
C18_AsStated ==
    (call.pc = "done" /\ call.response.kind = "text") =>
        call.response.lineBreaks = {"escaped"}

\* C19 as stated: the flights of every search_flights answer are in ascending
\* order of total price, in Live mode, in whatever order the provider
\* supplies its offers, as in Fallback mode.
C19_AsStated ==
    (/\ call.pc = "done"
     /\ call.request.name = "search_flights"
     /\ call.response.shape = "success")
    => IsSortedByPrice(call.response.data)

\* the provider's answer is a success with at least one offer
HasOffers(answer) == answer.kind = "response" /\ Len(answer.data) > 0

\* the messages of the errors the probe's search can fail with
ProbeErrorMessages ==
    {amadeusSearchFlights(testSearchParams, answer).err.message :
        answer \in {a \in SearchAnswers : ~HasOffers(a)}}

\* C20: with credentials the probe's one provider search is under way when
\* the constructor returns and settles once; the flag becomes true when the
\* search returns at least one offer and false on an empty result or any
\* failure; the step touches no call, and in the Fallback mode a failed probe
\* leaves, no call is answered with the message of an error the probe can
\* have failed with.
C20_ProbeSelectsMode ==
    /\ (credentials => probe = "pending")
    /\ [][\A answer \in SearchAnswers :
            ProbeSettles(answer) =>
                /\ probe = "pending" /\ probe' = "done"
                /\ useRealAPI' = IF HasOffers(answer) THEN "true" ELSE "false"
                /\ call' = call]_vars
    /\ [][probe # "pending" => probe' = probe /\ useRealAPI' = useRealAPI]_vars
    /\ []((probe = "done" /\ ~Live /\ call.pc = "done")
            => call.response.message \notin ProbeErrorMessages)

\* the probe has failed and a later call, served in Fallback mode, has been
\* answered with an error of its own
C20_Witness ==
    /\ probe = "done"
    /\ useRealAPI = "false"
    /\ call.pc = "done"
    /\ call.generatorCalls = 1
    /\ call.response.shape = "domain"

-----------------------------------------------------------------------------
(* The claim about validateTravelClass, checked under SpecValidators *)

\* C21 as stated: validateTravelClass returns "economy" when the argument is
\* absent, returns the argument unchanged when it is one of the four classes,
\* and fails with a validation error on travel_class for every other present
\* value, the empty string included.
C21_AsStated ==
    fn.name = "validateTravelClass" =>
        IF fn.arg = Undefined
        THEN fn.out = Ok(Str("economy"))
        ELSE IF IsString(fn.arg) /\ fn.arg.s \in {"economy", "premium_economy",
                                                  "business", "first"}
        THEN fn.out = Ok(fn.arg)
        ELSE /\ ~fn.out.ok
             /\ fn.out.err.name = "ValidationError"
             /\ fn.out.err.field = "travel_class"

-----------------------------------------------------------------------------
(* Further claims about the server, checked under Spec *)

\* C22: a call makes at most one provider call and has no response while
\* that call is pending; a call that has failed at the provider has made one
\* provider call, not more; get_flight_status and get_airline_info make no
\* provider call; and a call that starts while the flag is not true makes no
\* provider call.
C22_OneProviderCall ==
    /\ [](/\ call.providerCalls <= 1
          /\ (call.pc = "awaiting" =>
                 call.providerCalls = 1 /\ call.response = NoResponse)
          /\ (call.request.name \in {"get_flight_status", "get_airline_info"}
                 => call.providerCalls = 0))
    /\ [][(call.pc = "idle" /\ call'.pc # "idle" /\ ~Live) =>
            (call'.pc = "done" /\ call'.providerCalls = 0)]_vars

\* a search in Live mode has failed at the provider after one provider call
C22_Witness ==
    /\ call.pc = "done"
    /\ call.request.name = "search_flights"
    /\ call.providerCalls = 1
    /\ ~call.providerResult.ok
    /\ call.response.code = errorCodes.NETWORK_ERROR

-----------------------------------------------------------------------------
(* The claim about formatFlightOffers, checked under SpecValidators *)

\* C23: formatFlightOffers maps n offers to n flights in the same order;
\* each flight takes its origin and its departure from the first segment of
\* the offer's first itinerary, its destination and its arrival from the
\* last segment of that itinerary, and has stops = segments - 1 >= 0 with
\* segments the number of segments of that itinerary.
C23_Normalization ==
    fn.name = "formatFlightOffers" =>
        /\ Len(fn.out) = Len(fn.arg)
        /\ \A i \in 1..Len(fn.arg) :
              LET segs == fn.arg[i].itineraries[1].segments
                  flight == fn.out[i]
              IN /\ flight.price.amount = fn.arg[i].price.total
                 /\ flight.origin = Head(segs).departure.iataCode
                 /\ flight.departure_date = Head(segs).departure.at.date
                 /\ flight.departure_time = formatTime(Head(segs).departure.at)
                 /\ flight.destination = segs[Len(segs)].arrival.iataCode
                 /\ flight.arrival_time = formatTime(segs[Len(segs)].arrival.at)
                 /\ flight.segments = Len(segs)
                 /\ flight.stops = flight.segments - 1
                 /\ flight.stops >= 0

\* two offers have been normalized, the first a round trip whose outbound
\* itinerary has three segments
C23_Witness ==
    /\ fn.name = "formatFlightOffers"
    /\ Len(fn.arg) = 2
    /\ Len(fn.arg[1].itineraries) = 2
    /\ Len(fn.arg[1].itineraries[1].segments) = 3
    /\ fn.out[1].stops = 2
    /\ fn.out[1].destination = <<"L","H","R">>
    /\ fn.out[2].price.amount # fn.out[1].price.amount

-----------------------------------------------------------------------------
(* Claims about the provider request and the generator, checked under Spec *)

\* a search_flights call has sent its request to the provider
SearchRequestSent ==
    /\ call.pc # "idle"
    /\ call.request.name = "search_flights"
    /\ call.providerCalls = 1

\* C24 as stated: the provider request of a search_flights call carries a
\* cabin class only when the caller supplied travel_class, the corresponding
\* one, and none when the call omits travel_class; it asks for at most 10
\* offers in USD.
C24_AsStated ==
    SearchRequestSent =>
        /\ (call.request.arguments.travel_class = Undefined
               => "travelClass" \notin DOMAIN call.providerRequest)
        /\ (Truthy(call.request.arguments.travel_class)
               => /\ "travelClass" \in DOMAIN call.providerRequest
                  /\ call.providerRequest.travelClass
                        = cabinClassMap[call.request.arguments.travel_class.s])
        /\ call.providerRequest.max <= 10
        /\ call.providerRequest.currencyCode = "USD"

\* C24 amended: the provider request of every search_flights call carries a
\* cabin class: the one corresponding to the caller's travel_class, and
\* ECONOMY when the call omits travel_class; it asks for at most 10 offers
\* in USD.
C24_CabinClassAlwaysSent ==
    SearchRequestSent =>
        /\ "travelClass" \in DOMAIN call.providerRequest
        /\ call.providerRequest.travelClass
              = IF Truthy(call.request.arguments.travel_class)
                THEN cabinClassMap[call.request.arguments.travel_class.s]
                ELSE "ECONOMY"
        /\ call.providerRequest.max <= 10
        /\ call.providerRequest.currencyCode = "USD"

\* a search without travel_class has sent the provider a request for ECONOMY
C24_Witness ==
    /\ SearchRequestSent
    /\ call.request.arguments.travel_class = Undefined
    /\ "travelClass" \in DOMAIN call.providerRequest
    /\ call.providerRequest.travelClass = "ECONOMY"

\* the equally likely draws that give the stop count s
DrawsGiving(s) == {n \in Seeds : StopsForDraw(n) = s}

\* C25 as stated: each generated flight has 0 or 1 stops, chosen by one
\* uniform draw so that direct is the more frequent outcome: about 40% of
\* the draws (between 30% and 50%) give one stop and the others a direct
\* flight.
C25_AsStated ==
    ServedByGenerator =>
        /\ \A i \in 1..Len(call.response.data) :
              call.response.data[i].stops \in {0, 1}
        /\ Cardinality(DrawsGiving(0)) > Cardinality(DrawsGiving(1))
        /\ 10 * Cardinality(DrawsGiving(1)) >= 3 * Cardinality(Seeds)
        /\ 10 * Cardinality(DrawsGiving(1)) <= 5 * Cardinality(Seeds)

\* the annotation of the answer tells the source its data came from
LabelAgreesWithSource(response) ==
    /\ response.label \in {"live", "sample"}
    /\ response.label = "live" <=> response.source = "provider"
    /\ response.label = "sample" <=> response.source = "generator"

\* C26 as stated: every successful response of each of the four operations
\* tells whether its data is live or sample, in agreement with the mode the
\* call was served in.
C26_AsStated ==
    (call.pc = "done" /\ call.response.shape = "success")
    => LabelAgreesWithSource(call.response)

\* C27: in every successful answer of search_flights and get_airport_info
\* the annotation agrees with the source of the data, provider data being
\* labelled live and generator data sample, wherever the probe's completion
\* falls among the steps of the call.
C27_LabelMatchesSource ==
    (/\ call.pc = "done"
     /\ call.request.name \in {"search_flights", "get_airport_info"}
     /\ call.response.shape = "success")
    => LabelAgreesWithSource(call.response)

\* the probe settled while a search answered from the generator was waiting
\* to be sent: the flag is now true and the answer says sample
C27_Witness ==
    /\ call.pc = "done"
    /\ call.request.name = "search_flights"
    /\ call.response.shape = "success"
    /\ call.response.source = "generator"
    /\ call.response.label = "sample"
    /\ Live

\* the probe's criteria as the arguments of a search_flights call
ProbeArguments ==
    [origin |-> Str(testSearchParams.origin),
     destination |-> Str(testSearchParams.destination),
     departure_date |-> Str(testSearchParams.departure_date),
     return_date |-> Undefined,
     adults |-> Num(testSearchParams.adults),
     travel_class |-> Str(testSearchParams.travel_class)]

\* C28 as stated: whenever the process starts, the criteria the probe sends
\* pass the validation a caller's search must pass: the origin differs from
\* the destination and the departure date is not before the current date.
C28_AsStated ==
    probe # "none" =>
        /\ testSearchParams.origin # testSearchParams.destination
        /\ DayOf(testSearchParams.departure_date) >= LocalToday
        /\ searchFlightsValidate(ProbeArguments).ok

-----------------------------------------------------------------------------
(* C29: a call naming no defined operation *)

DefinedTools == {"search_flights", "get_airport_info", "get_flight_status",
                 "get_airline_info"}

\* C29: a call naming an operation other than the four defined ones is
\* answered at once, with a domain error payload whose code is GENERAL_ERROR
\* and not empty; no validator has run, no provider call and no generator call
\* has been made, and the step that answers it leaves the mode and the probe
\* as they were.
C29_UnknownTool ==
    /\ []((call.pc # "idle" /\ call.request.name \notin DefinedTools) =>
            /\ call.pc = "done"
            /\ call.response.kind = "text"
            /\ call.response.shape = "domain"
            /\ call.response.code = "GENERAL_ERROR"
            /\ call.response.code # ""
            /\ call.validated = <<>>
            /\ call.providerCalls = 0
            /\ call.generatorCalls = 0
            /\ call.providerRequest = NoRequest)
    /\ [][(call.pc = "idle" /\ call'.pc # "idle"
             /\ call'.request.name \notin DefinedTools) =>
            (/\ useRealAPI' = useRealAPI
             /\ probe' = probe
             /\ servedModes' = servedModes)]_vars

\* an unknown operation has been answered while the server is in Live mode
C29_Witness ==
    /\ call.pc = "done"
    /\ call.request.name = "book_flight"
    /\ call.request.hasArgs
    /\ call.response.shape = "domain"
    /\ Live

-----------------------------------------------------------------------------
(* C30: a process started without credentials *)

\* C30: without credentials the constructor's catch block has set the flag to
\* false before the first call and the probe is never issued; from then on the
\* mode is Fallback, no call awaits or has made a provider call, and every
\* search_flights and get_airport_info call that succeeds is served by the
\* generator or the reference table and labelled as sample data.
C30_NoCredentials ==
    ~credentials =>
        /\ probe = "none"
        /\ useRealAPI = "false"
        /\ writers = {"constructor"}
        /\ ~Live
        /\ "Live" \notin servedModes
        /\ call.pc # "awaiting"
        /\ call.providerCalls = 0
        /\ call.providerRequest = NoRequest
        /\ (/\ call.pc = "done"
            /\ call.request.name \in {"search_flights", "get_airport_info"}
            /\ call.response.shape = "success")
           => /\ call.response.source = "generator"
              /\ call.response.label = "sample"
              /\ call.generatorCalls >= 1

\* a search answered by the generator in a process without credentials
C30_Witness ==
    /\ ~credentials
    /\ call.pc = "done"
    /\ call.request.name = "search_flights"
    /\ call.response.shape = "success"
    /\ call.response.source = "generator"
    /\ call.providerCalls = 0

====
